---- MODULE Spec2Model ----
(***************************************************************************)
(* Model of the vector store lifecycle manager (VectorStoreService,        *)
(* app/services/vectorstore.py) and of the query path that reads it        *)
(* (RAGPipeline.query, app/services/rag_pipeline.py).                      *)
(*                                                                         *)
(* The in-memory FAISS store is the ordered population of its docstore     *)
(* (index position -> Document); None is a store with present = FALSE.     *)
(* The two persisted artifacts are the index directory and the metadata    *)
(* file; each is absent, readable ("ok") or unreadable ("corrupt", what a  *)
(* write that failed half way leaves behind).                              *)
(* External failures (embedding call, disk write, directory removal, the   *)
(* generation call) are inputs of the operations: each call may fail at    *)
(* one of the steps the code performs.                                     *)
(***************************************************************************)
EXTENDS Integers, Sequences, FiniteSets, TLC

\* ---------------------------------------------------------------- bounds
MaxBatch == 2      \* fragments in one add_documents call
MaxChunks == 3     \* fragments held by the store, or counted by one record
MaxFaults == 1     \* failing steps (embedding, disk, generation) in one run

Names == {"a.txt", "b.txt"}
Texts == {"alpha", "beta"}
Questions == {"alpha", "beta"}
Ks == {1, 2}       \* the k of a search or a query

\* ------------------------------------------------ documents and embeddings
\* str(settings.documents_dir / filename): the path the upload was saved at
FilePath(filename) == "data/documents/" \o filename

\* a chunk as process_file returns it: text plus the loader's source path
Chunk(text, filename) ==
    [page_content |-> text, filename |-> "", source |-> FilePath(filename)]

\* the text of the i-th chunk of an uploaded file
ChunkText(i) == IF i % 2 = 1 THEN "alpha" ELSE "beta"

\* the batches of chunks an upload of `filename` can produce: a file of
\* 0..MaxBatch chunks (a file without text splits into no chunk)
Batches(filename) ==
    {[i \in 1..n |-> Chunk(ChunkText(i), filename)] : n \in 0..MaxBatch}

\* the embedding function: text -> vector (one coordinate is enough here)
Embed(text) == IF text = "alpha" THEN 0 ELSE 2

\* ---------------------------------------------------------------- FAISS
None == [present |-> FALSE, docs |-> <<>>]

FAISS_from_documents(documents) == [present |-> TRUE, docs |-> documents]

FAISS_add_documents(vs, documents) ==
    [present |-> TRUE, docs |-> vs.docs \o documents]

Abs(x) == IF x < 0 THEN -x ELSE x

Distance(query, doc) == Abs(Embed(query) - Embed(doc.page_content))

\* position of docs[i] in the ranking for query: nearer first, index order
\* among equals
Rank(docs, query, i) ==
    1 + Cardinality({j \in 1..Len(docs) :
          \/ Distance(query, docs[j]) < Distance(query, docs[i])
          \/ Distance(query, docs[j]) = Distance(query, docs[i]) /\ j < i})

FAISS_similarity_search(vs, query, k) ==
    LET n == IF k < Len(vs.docs) THEN k ELSE Len(vs.docs)
    IN  [r \in 1..n |->
            vs.docs[CHOOSE i \in 1..Len(vs.docs) : Rank(vs.docs, query, i) = r]]

\* save_local / load_local: the docstore pickled with the index
Absent == [kind |-> "absent", data |-> <<>>]
CorruptIndex == [kind |-> "corrupt", data |-> <<>>]

FAISS_save_local(vs) == [kind |-> "ok", data |-> vs.docs]

FAISS_load_local(artifact) == [present |-> TRUE, docs |-> artifact.data]

\* ------------------------------------------------------- metadata (ledger)
EmptyMeta == [name \in {} |-> [chunks |-> 0, filename |-> ""]]

\* json.dump of the ledger: the set of its entries
json_dump(meta) ==
    {<<name, meta[name].chunks, meta[name].filename>> : name \in DOMAIN meta}

json_load(text) ==
    [name \in {e[1] : e \in text} |->
        LET e == CHOOSE e \in text : e[1] = name
        IN  [chunks |-> e[2], filename |-> e[3]]]

AbsentMeta == [kind |-> "absent", data |-> {}]
CorruptMeta == [kind |-> "corrupt", data |-> {}]

\* ---------------------------------------------------------------- state
VARIABLES
    vectorstore,         \* self.vectorstore
    documents_metadata,  \* self.documents_metadata
    disk_index,          \* the directory at self.index_path
    disk_meta,           \* the file at self.metadata_path
    last,                \* the call that completed last and what it returned
    faults,              \* number of calls in which a step has failed so far
    call,                \* the mutating call in progress and the step it is at
    held,                \* a retriever a caller keeps from get_retriever
    http,                \* the requests in flight and the coroutine that runs
    reader               \* a reader thread: the read it is in and what it has read

vars == <<vectorstore, documents_metadata, disk_index, disk_meta, last, faults,
          call, held, http, reader>>

\* ------------------------------------------------------------ persistence
\* a load that leaves an empty store object when there is nothing to load
_load_vectorstore_empty(di) == [present |-> TRUE, docs |-> di.data]

\* _load_vectorstore: an index that is absent or fails to load leaves None
_load_vectorstore(di) ==
    IF di.kind = "ok" THEN FAISS_load_local(di) ELSE None

\* a start that does not read the metadata file
_load_metadata_fresh(dm) == EmptyMeta

\* _load_metadata: a file that is absent or fails to parse leaves {}
_load_metadata(dm) ==
    IF dm.kind = "ok" THEN json_load(dm.data) ELSE EmptyMeta

\* _save_metadata: the write error is logged and not re-raised; a write
\* that failed after open(..., 'w') leaves an unreadable file (partial)
_save_metadata(meta, dm, fails, partial) ==
    IF ~fails THEN [kind |-> "ok", data |-> json_dump(meta)]
    ELSE IF partial THEN CorruptMeta ELSE dm

\* _save_vectorstore: the write error is logged and re-raised
_save_vectorstore(vs, di, fails, partial) ==
    [disk   |-> IF ~fails THEN FAISS_save_local(vs)
                ELSE IF partial THEN CorruptIndex ELSE di,
     raised |-> fails]

\* shutil.rmtree(self.index_path) when the directory exists
rmtree_index(di, fails, partial) ==
    [disk   |-> IF di.kind = "absent" THEN di
                ELSE IF ~fails THEN Absent
                ELSE IF partial THEN CorruptIndex ELSE di,
     raised |-> di.kind # "absent" /\ fails]

\* ------------------------------------------------------------- read side
\* a readiness check that ignores the store
is_ready_always(vs) == TRUE

is_ready(vs) == vs.present

get_document_count(vs) == IF ~vs.present THEN 0 ELSE Len(vs.docs)

get_stats(vs, meta) ==
    [total_chunks    |-> get_document_count(vs),
     total_documents |-> Cardinality(DOMAIN meta),
     documents       |-> meta]

\* the list as the set of its entries (dict order is not modelled)
list_documents(meta) ==
    {[filename |-> name, chunks |-> meta[name].chunks] : name \in DOMAIN meta}

similarity_search(vs, query, k) ==
    IF ~vs.present THEN <<>> ELSE FAISS_similarity_search(vs, query, k)

\* None, or a retriever bound to the store object and k
get_retriever(vs, k) ==
    IF ~vs.present THEN [present |-> FALSE, store |-> None, k |-> k]
    ELSE [present |-> TRUE, store |-> vs, k |-> k]

\* ------------------------------------------------------------ add_documents
Faults == {"none", "embed", "save_index", "save_meta", "rmtree"}

\* the state a call leaves, what it returned, and the step that failed in it
Outcome(vs, meta, di, dm, ok, ret, failed) ==
    [vectorstore |-> vs, documents_metadata |-> meta,
     disk_index |-> di, disk_meta |-> dm, ok |-> ok, ret |-> ret,
     failed |-> failed]

\* lines 106-108: every document is tagged with the filename
tag_documents(documents, filename) ==
    [i \in 1..Len(documents) |-> [documents[i] EXCEPT !.filename = filename]]

\* an update that replaces the record instead of accumulating
update_metadata_replace(meta, filename, n) ==
    [name \in DOMAIN meta \cup {filename} |->
        IF name = filename THEN [chunks |-> n, filename |-> filename]
        ELSE meta[name]]

\* lines 119-126: accumulate on an existing record, else create it
update_metadata(meta, filename, n) ==
    IF filename \in DOMAIN meta
    THEN [meta EXCEPT ![filename].chunks = @ + n]
    ELSE [name \in DOMAIN meta \cup {filename} |->
            IF name = filename THEN [chunks |-> n, filename |-> filename]
            ELSE meta[name]]

\* ok = FALSE: the call raised. FAISS.from_documents and
\* FAISS.add_documents raise on an empty list (there is no vector to take
\* the dimension from or to add), so an empty batch raises at lines 113/117
\* before anything is changed.
add_documents(vs, meta, di, dm, documents, filename, fault, partial) ==
    LET tagged == tag_documents(documents, filename)
    IN  IF documents = <<>> THEN Outcome(vs, meta, di, dm, FALSE, 0, "none")
        ELSE IF fault = "embed" THEN Outcome(vs, meta, di, dm, FALSE, 0, "embed")
        ELSE
        LET vs1   == IF ~vs.present THEN FAISS_from_documents(tagged)
                     ELSE FAISS_add_documents(vs, tagged)
            meta1 == update_metadata(meta, filename, Len(documents))
            sv    == _save_vectorstore(vs1, di, fault = "save_index", partial)
        IN  IF sv.raised
            THEN Outcome(vs1, meta1, sv.disk, dm, FALSE, 0, "save_index")
            ELSE Outcome(vs1, meta1, sv.disk,
                         _save_metadata(meta1, dm, fault = "save_meta", partial),
                         TRUE, Len(documents),
                         IF fault = "save_meta" THEN fault ELSE "none")

\* ---------------------------------------------------------- delete_document
\* a filter that compares the loader's source path with the name
docs_to_keep_by_source(vs, filename) ==
    SelectSeq(vs.docs, LAMBDA doc : doc.source # filename)

\* lines 256-261: the documents whose filename differs, in index order
docs_to_keep(vs, filename) ==
    SelectSeq(vs.docs, LAMBDA doc : doc.filename # filename)

\* line 266: del self.documents_metadata[filename]
del_metadata(meta, filename) ==
    [name \in DOMAIN meta \ {filename} |-> meta[name]]

\* lines 247-288, for a filename the ledger holds; ok = the value returned
delete_known(vs, meta, di, dm, filename, fault, partial) ==
    IF ~vs.present THEN Outcome(vs, meta, di, dm, FALSE, 0, "none")
    ELSE
    LET keep  == docs_to_keep(vs, filename)
        meta1 == del_metadata(meta, filename)
        saved == _save_metadata(meta1, dm, fault = "save_meta", partial)
        hit   == IF fault = "save_meta" THEN fault ELSE "none"
    IN  IF keep # <<>>
        THEN IF fault = "embed"
             THEN Outcome(vs, meta1, di, dm, FALSE, 0, "embed")
             ELSE
             LET vs1 == FAISS_from_documents(keep)
                 sv  == _save_vectorstore(vs1, di, fault = "save_index", partial)
             IN  IF sv.raised
                 THEN Outcome(vs1, meta1, sv.disk, dm, FALSE, 0, "save_index")
                 ELSE Outcome(vs1, meta1, sv.disk, saved, TRUE, 0, hit)
        ELSE
             LET rm == rmtree_index(di, fault = "rmtree", partial)
             IN  IF rm.raised
                 THEN Outcome(None, meta1, rm.disk, dm, FALSE, 0, "rmtree")
                 ELSE Outcome(None, meta1, rm.disk, saved, TRUE, 0, hit)

\* a delete without the check of lines 243-245
delete_document_unchecked(vs, meta, di, dm, filename, fault, partial) ==
    delete_known(vs, meta, di, dm, filename, fault, partial)

\* lines 243-245, then the rest
delete_document(vs, meta, di, dm, filename, fault, partial) ==
    IF filename \notin DOMAIN meta
    THEN Outcome(vs, meta, di, dm, FALSE, 0, "none")
    ELSE delete_known(vs, meta, di, dm, filename, fault, partial)

\* ------------------------------------------------------- RAGPipeline.query
NoDocumentsAnswer ==
    "No documents have been uploaded yet. Please upload documents first."

NotAvailableAnswer == "Vector store is not available."

\* the text the generation call returns (opaque)
GeneratedAnswer == "generated"

\* lines 162-176; the modelled texts are shorter than the 500 characters at
\* which content is cut
_format_sources(documents) ==
    [i \in 1..Len(documents) |->
        [content |-> documents[i].page_content, source |-> documents[i].source]]

Reply(answer, sources, question, raised, retriever_built, llm_built, llm_invoked) ==
    [answer |-> answer, sources |-> sources, question |-> question,
     raised |-> raised, retriever_built |-> retriever_built,
     llm_built |-> llm_built, llm_invoked |-> llm_invoked]

\* generation_fails: the generation call raises
query(vs, question, k, generation_fails) ==
    IF ~is_ready(vs)
    THEN Reply(NoDocumentsAnswer, <<>>, question, FALSE, FALSE, FALSE, FALSE)
    ELSE
    LET retriever == get_retriever(vs, k)
    IN  IF ~retriever.present
        THEN Reply(NotAvailableAnswer, <<>>, question, FALSE, FALSE, FALSE, FALSE)
        ELSE
        LET source_docs == FAISS_similarity_search(retriever.store, question, retriever.k)
        IN  IF generation_fails
            THEN Reply("", <<>>, question, TRUE, TRUE, TRUE, TRUE)
            ELSE Reply(GeneratedAnswer, _format_sources(source_docs), question,
                       FALSE, TRUE, TRUE, TRUE)

\* ------------------------------------------------------------ upload route
\* file names that reach the upload route besides the ones ingested
OtherNames == {"c.EXE", "txt"}
UploadNames == Names \cup OtherNames

\* ".".join(parts)
RECURSIVE join(_)
join(parts) ==
    IF Len(parts) = 1 THEN parts[1]
    ELSE join(SubSeq(parts, 1, Len(parts) - 1)) \o "." \o parts[Len(parts)]

\* filename.split(".")
split(filename) ==
    CHOOSE parts \in {<<"a", "txt">>, <<"b", "txt">>, <<"c", "EXE">>, <<"txt">>} :
        join(parts) = filename

\* str.lower
lower(text) == IF text = "EXE" THEN "exe" ELSE text

allowed_extensions == {".pdf", ".txt", ".md"}

\* routes.py line 56: "." + file.filename.split(".")[-1].lower()
file_extension(filename) ==
    "." \o lower(split(filename)[Len(split(filename))])

\* routes.py lines 58-63: FALSE is the 400 answer
upload_accepted(filename) == file_extension(filename) \in allowed_extensions

\* pathlib's Path.suffix, lowered (load_document line 52): "" for a name
\* without a dot after its first character
suffix(filename) ==
    LET parts == split(filename)
    IN  IF Len(parts) < 2 \/ (Len(parts) = 2 /\ parts[1] = "")
           \/ parts[Len(parts)] = ""
        THEN ""
        ELSE "." \o lower(parts[Len(parts)])

\* load_document lines 54-65: FALSE is the ValueError
loader_supported(filename) == suffix(filename) \in {".pdf", ".txt", ".md"}

\* the upload names that pass the route's check, and the ones the loader knows
Accepted == {f \in UploadNames : upload_accepted(f)}
Loadable == {f \in UploadNames : loader_supported(f)}

\* ---------------------------------------------------------------- actions
\* the record of the last step a caller saw complete (a call that returned
\* or raised, or an upload that reached its await):
\*   op, name, n      the call and its arguments (query: question and k)
\*   known            name had a ledger record when the call started
\*   ok               add_documents returned / delete_document returned True /
\*                    query returned
\*   ret              the count add_documents returned
\*   fault            the step that failed in the call ("none": no step)
\*   saved            both artifacts were written by the last mutating call
\*   reply            what query did and returned
\*   status           the HTTP status the route answered with
\*   io               the route read the uploaded file and saved it
\*   at, torn         crash: the step the call was at, and whether the crash
\*                    interrupted that step's write
NoReply == Reply("", <<>>, "", FALSE, FALSE, FALSE, FALSE)

NoCall ==
    [op |-> "init", name |-> "", n |-> 0, known |-> FALSE, ok |-> TRUE,
     ret |-> 0, fault |-> "none", saved |-> FALSE, reply |-> NoReply,
     status |-> 200, io |-> FALSE, at |-> "idle", torn |-> FALSE]

\* no mutating call is in progress
Idle == [pc |-> "idle", name |-> "", n |-> 0, known |-> FALSE]

\* the module start raised: there is no service and no route
Down == [pc |-> "down", name |-> "", n |-> 0, known |-> FALSE]

\* the module of the routes was imported: the services exist
Serving == call.pc # "down"

\* the reader thread is in no call
\*   total_chunks, total_documents   what get_stats has read so far
\*   query, k     the arguments of the similarity_search it is in
\*   seen         the entries the comprehension of list_documents has built
\*   used, left   the dict iterator: the size of the dict when it was made
\*                and the number of entries it may still give
\*   todo         the keys it has not reached, in slots they had from the start
\*   fresh        the keys put into the dict since it was made, not reached
\*   changed      a key was put into or taken out of the dict since
NoReader ==
    [pc |-> "idle", total_chunks |-> 0, total_documents |-> 0,
     query |-> "", k |-> 0, seen |-> {}, used |-> 0, left |-> 0,
     todo |-> {}, fresh |-> {}, changed |-> FALSE]

\* what an iteration in progress keeps of a key put into the dict
dict_inserted(r, name) ==
    IF r.pc # "list_documents" THEN r
    ELSE [r EXCEPT !.changed = TRUE, !.fresh = @ \cup {name}]

\* what an iteration in progress keeps of a key taken out of the dict
dict_deleted(r, name) ==
    IF r.pc # "list_documents" THEN r
    ELSE [r EXCEPT !.changed = TRUE, !.todo = @ \ {name}, !.fresh = @ \ {name}]

\* the slots for requests in flight
Requests == {1, 2}

\* no request in the slot
NoRequest == [pc |-> "none", kind |-> "", name |-> "", n |-> 0, known |-> FALSE]

\* the HTTP layer: running is the request whose coroutine holds the event
\* loop (0: none), reqs the request in each slot and where its coroutine is
NoRequests == [running |-> 0, reqs |-> [r \in Requests |-> NoRequest]]

\* no retriever is kept. A retriever kept by a caller:
\*   present, store, k   what get_retriever returned: the FAISS object the
\*                       retriever searches, and k
\*   bound               that object is still the one self.vectorstore names
\*   result              the documents its last invocation returned
NoRetriever ==
    [present |-> FALSE, store |-> None, k |-> 0, bound |-> FALSE, result |-> <<>>]

Apply(out) ==
    /\ vectorstore' = out.vectorstore
    /\ documents_metadata' = out.documents_metadata
    /\ disk_index' = out.disk_index
    /\ disk_meta' = out.disk_meta

Init ==
    /\ vectorstore = None
    /\ documents_metadata = EmptyMeta
    /\ disk_index = Absent
    /\ disk_meta = AbsentMeta
    /\ last = NoCall
    /\ faults = 0
    /\ call = Idle
    /\ held = NoRetriever
    /\ http = NoRequests
    /\ reader = NoReader

\* routes.upload_document lines 52-67: the extension passes the check and
\* the coroutine is suspended in `await file.read()`; other requests are
\* served until it resumes (one upload is suspended at a time here, SpecHttp
\* has several)
UploadRead ==
    \E filename \in Accepted :
        /\ call.pc = "idle"
        /\ call' = [Idle EXCEPT !.pc = "upload_read", !.name = filename]
        /\ last' = [NoCall EXCEPT !.op = "upload_read", !.saved = last.saved]
        /\ UNCHANGED <<vectorstore, documents_metadata, disk_index, disk_meta,
                       faults, held, http, reader>>

\* the upload in the suspended coroutine
Uploading == IF call.pc = "upload_read" THEN {call.name} ELSE {}

\* routes.upload_document lines 67-91, from the resumption of the coroutine:
\* the file is saved and split, add_documents(chunks, filename) runs and the
\* route answers
AddDocuments ==
    \E filename \in Uploading \cap Loadable :
    \E fault \in Faults \ {"rmtree"}, partial \in BOOLEAN :
    \E documents \in Batches(filename) :
        /\ call' = Idle
        /\ fault = "none" => ~partial
        /\ fault # "none" => faults < MaxFaults
        /\ faults' = IF fault = "none" THEN faults ELSE faults + 1
        /\ get_document_count(vectorstore) + Len(documents) <= MaxChunks
        /\ filename \in DOMAIN documents_metadata =>
              documents_metadata[filename].chunks + Len(documents) <= MaxChunks
        /\ \E out \in {add_documents(vectorstore, documents_metadata, disk_index,
                                    disk_meta, documents, filename, fault, partial)} :
               /\ out.failed = fault
               /\ Apply(out)
               /\ last' = [NoCall EXCEPT
                      !.op = "add", !.name = filename, !.n = Len(documents),
                      !.known = filename \in DOMAIN documents_metadata,
                      !.ok = out.ok, !.ret = out.ret, !.fault = fault,
                      !.saved = out.ok /\ fault = "none",
                      !.status = IF out.ok THEN 200 ELSE 500, !.io = TRUE]
               /\ UNCHANGED <<held, http, reader>>

\* routes.delete_document -> vectorstore_service.delete_document(filename)
DeleteDocument ==
    \E filename \in Names, fault \in Faults, partial \in BOOLEAN :
        /\ Serving
        /\ fault = "none" => ~partial
        /\ fault # "none" => faults < MaxFaults
        /\ faults' = IF fault = "none" THEN faults ELSE faults + 1
        /\ \E out \in {delete_document(vectorstore, documents_metadata, disk_index,
                                      disk_meta, filename, fault, partial)},
              known \in {filename \in DOMAIN documents_metadata} :
               /\ out.failed = fault
               /\ Apply(out)
               /\ last' = [NoCall EXCEPT
                      !.op = "delete", !.name = filename,
                      !.known = known, !.ok = out.ok, !.fault = fault,
                      !.saved = IF known THEN out.ok /\ fault = "none"
                                ELSE last.saved,
                      !.status = IF out.ok THEN 200 ELSE 404]
               /\ UNCHANGED <<call, held, http, reader>>

\* what can raise while the module of the routes is imported: the
\* HuggingFaceEmbeddings constructor, the ChatGroq constructor
StartFaults == {"none", "embeddings", "llm"}

\* the constructor or the module start raised: no service object exists
NoService ==
    [vectorstore |-> None, documents_metadata |-> EmptyMeta, raised |-> TRUE]

\* a constructor whose loads let the error of an unreadable artifact through
VectorStoreService_init_uncaught(di, dm, embeddings_fail) ==
    IF embeddings_fail \/ di.kind = "corrupt" \/ dm.kind = "corrupt"
    THEN NoService
    ELSE [vectorstore |-> _load_vectorstore(di),
          documents_metadata |-> _load_metadata(dm),
          raised |-> FALSE]

\* VectorStoreService.__init__: _initialize_embeddings re-raises (line 28,
\* lines 36-50), before anything is loaded; the two loads catch every
\* exception themselves
VectorStoreService_init(di, dm, embeddings_fail) ==
    IF embeddings_fail THEN NoService
    ELSE [vectorstore |-> _load_vectorstore(di),
          documents_metadata |-> _load_metadata(dm),
          raised |-> FALSE]

\* routes.py lines 22-25: VectorStoreService(), then RAGPipeline(...), whose
\* _initialize_llm re-raises; when either raises the import fails
module_start(di, dm, fault) ==
    LET service == VectorStoreService_init(di, dm, fault = "embeddings")
    IN  IF service.raised \/ fault = "llm" THEN NoService ELSE service

\* the process is stopped between calls and started again: the module start
\* builds the services, VectorStoreService.__init__ loads both artifacts
Restart ==
    \E fault \in StartFaults :
        /\ fault # "none" => faults < MaxFaults
        /\ faults' = IF fault = "none" THEN faults ELSE faults + 1
        /\ \E service \in {module_start(disk_index, disk_meta, fault)} :
              /\ vectorstore' = service.vectorstore
              /\ documents_metadata' = service.documents_metadata
              /\ last' = [NoCall EXCEPT !.op = "restart", !.saved = last.saved,
                                        !.ok = ~service.raised, !.fault = fault,
                                        !.status = IF service.raised THEN 500
                                                   ELSE 200]
              /\ call' = IF service.raised THEN Down ELSE Idle
        /\ UNCHANGED <<disk_index, disk_meta>>
        /\ held' = NoRetriever
        /\ http' = NoRequests
        /\ reader' = NoReader

\* routes.query_documents -> rag_pipeline.query(question, k, ...)
Query ==
    \E question \in Questions, k \in Ks, generation_fails \in BOOLEAN :
        \E reply \in {query(vectorstore, question, k, generation_fails)} :
            /\ Serving
            /\ generation_fails => reply.raised /\ faults < MaxFaults
            /\ faults' = IF generation_fails THEN faults + 1 ELSE faults
            /\ last' = [NoCall EXCEPT
                   !.op = "query", !.name = question, !.n = k,
                   !.ok = ~reply.raised,
                   !.saved = last.saved, !.reply = reply,
                   !.status = IF reply.raised THEN 500 ELSE 200]
            /\ UNCHANGED <<vectorstore, documents_metadata, disk_index, disk_meta,
                           call, held, http, reader>>

\* routes.upload_document, lines 54-63: the 400 answer, before file.read()
UploadRejected ==
    \E filename \in UploadNames \ Accepted :
        /\ Serving
        /\ last' = [NoCall EXCEPT
               !.op = "upload", !.name = filename, !.ok = FALSE,
               !.known = filename \in DOMAIN documents_metadata,
               !.saved = last.saved, !.status = 400, !.io = FALSE]
        /\ UNCHANGED <<vectorstore, documents_metadata, disk_index, disk_meta,
                       faults, call, held, http, reader>>

\* routes.upload_document, lines 67-91, from the resumption of the
\* coroutine: the file is saved, then process_file raises for a suffix
\* load_document does not know and the route answers 500; add_documents is
\* not reached
UploadUnloadable ==
    \E filename \in Uploading \ Loadable :
        /\ call' = Idle
        /\ last' = [NoCall EXCEPT
               !.op = "upload", !.name = filename, !.ok = FALSE,
               !.known = filename \in DOMAIN documents_metadata,
               !.saved = last.saved, !.status = 500, !.io = TRUE]
        /\ UNCHANGED <<vectorstore, documents_metadata, disk_index, disk_meta,
                       faults, held, http, reader>>

\* the requests that change the corpus, and the starts
Next ==
    \/ UploadRead \/ AddDocuments \/ DeleteDocument \/ Restart
    \/ UploadRejected \/ UploadUnloadable

Spec == Init /\ [][Next]_vars

\* ------------------------------------------------ queries between requests
\* queries served between the uploads that are read, the deletes and the
\* starts
NextQuery ==
    \/ UploadRead \/ AddDocuments \/ UploadUnloadable \/ DeleteDocument
    \/ Restart \/ Query

SpecQuery == Init /\ [][NextQuery]_vars

\* ------------------------------------------- the calls step by step, crashes
\* add_documents and delete_document one statement group at a time; the
\* process can be killed before or inside any step, and is then started again.
\* call.pc names the step that runs next.
AddSteps == {"add_ledger", "add_save_index", "add_save_meta"}
DeleteSteps == {"del_rebuild", "del_save_index", "del_rmtree", "del_save_meta"}
IndexWrites == {"add_save_index", "del_save_index", "del_rmtree"}
MetaWrites == {"add_save_meta", "del_save_meta"}

\* lines 105-117: tag the documents and insert them; the insert of an empty
\* batch raises and the call ends
StartAdd ==
    \E filename \in Names : \E documents \in Batches(filename) :
        /\ call.pc = "idle"
        /\ get_document_count(vectorstore) + Len(documents) <= MaxChunks
        /\ filename \in DOMAIN documents_metadata =>
              documents_metadata[filename].chunks + Len(documents) <= MaxChunks
        /\ IF documents = <<>>
           THEN /\ last' = [NoCall EXCEPT
                       !.op = "add", !.name = filename, !.ok = FALSE,
                       !.known = filename \in DOMAIN documents_metadata,
                       !.status = 500, !.io = TRUE]
                /\ UNCHANGED <<vectorstore, call>>
           ELSE /\ vectorstore' =
                      IF ~vectorstore.present
                      THEN FAISS_from_documents(tag_documents(documents, filename))
                      ELSE FAISS_add_documents(vectorstore,
                                               tag_documents(documents, filename))
                /\ call' = [pc |-> "add_ledger", name |-> filename,
                            n |-> Len(documents),
                            known |-> filename \in DOMAIN documents_metadata]
                /\ UNCHANGED last
        /\ UNCHANGED <<documents_metadata, disk_index, disk_meta, faults, held, http, reader>>

\* lines 119-126
AddLedger ==
    /\ call.pc = "add_ledger"
    /\ documents_metadata' = update_metadata(documents_metadata, call.name, call.n)
    /\ reader' = IF call.name \in DOMAIN documents_metadata THEN reader
                 ELSE dict_inserted(reader, call.name)
    /\ call' = [call EXCEPT !.pc = "add_save_index"]
    /\ UNCHANGED <<vectorstore, disk_index, disk_meta, last, faults, held, http>>

\* line 129
AddSaveIndex ==
    /\ call.pc = "add_save_index"
    /\ disk_index' = _save_vectorstore(vectorstore, disk_index, FALSE, FALSE).disk
    /\ call' = [call EXCEPT !.pc = "add_save_meta"]
    /\ UNCHANGED <<vectorstore, documents_metadata, disk_meta, last, faults, held, http, reader>>

\* lines 130-133
AddSaveMeta ==
    /\ call.pc = "add_save_meta"
    /\ disk_meta' = _save_metadata(documents_metadata, disk_meta, FALSE, FALSE)
    /\ call' = Idle
    /\ last' = [NoCall EXCEPT
           !.op = "add", !.name = call.name, !.n = call.n, !.known = call.known,
           !.ret = call.n, !.saved = TRUE, !.io = TRUE]
    /\ UNCHANGED <<vectorstore, documents_metadata, disk_index, faults, held, http, reader>>

\* lines 243-266: the two early returns, else the ledger record is removed
StartDelete ==
    \E filename \in Names :
        /\ call.pc = "idle"
        /\ IF filename \notin DOMAIN documents_metadata \/ ~vectorstore.present
           THEN /\ last' = [NoCall EXCEPT
                       !.op = "delete", !.name = filename, !.ok = FALSE,
                       !.known = filename \in DOMAIN documents_metadata,
                       !.saved = last.saved, !.status = 404]
                /\ UNCHANGED <<documents_metadata, call, reader>>
           ELSE /\ documents_metadata' = del_metadata(documents_metadata, filename)
                /\ reader' = dict_deleted(reader, filename)
                /\ call' = [pc |-> "del_rebuild", name |-> filename, n |-> 0,
                            known |-> TRUE]
                /\ UNCHANGED last
        /\ UNCHANGED <<vectorstore, disk_index, disk_meta, faults, held, http>>

\* lines 269-270 and 272-275: the store is rebuilt from the documents kept,
\* or dropped
DelRebuild ==
    /\ call.pc = "del_rebuild"
    /\ \E keep \in {docs_to_keep(vectorstore, call.name)} :
          IF keep # <<>>
          THEN /\ vectorstore' = FAISS_from_documents(keep)
               /\ call' = [call EXCEPT !.pc = "del_save_index"]
          ELSE /\ vectorstore' = None
               /\ call' = [call EXCEPT !.pc = "del_rmtree"]
    /\ UNCHANGED <<documents_metadata, disk_index, disk_meta, last, faults, held, http, reader>>

\* line 271
DelSaveIndex ==
    /\ call.pc = "del_save_index"
    /\ disk_index' = _save_vectorstore(vectorstore, disk_index, FALSE, FALSE).disk
    /\ call' = [call EXCEPT !.pc = "del_save_meta"]
    /\ UNCHANGED <<vectorstore, documents_metadata, disk_meta, last, faults, held, http, reader>>

\* lines 276-278
DelRmtree ==
    /\ call.pc = "del_rmtree"
    /\ disk_index' = rmtree_index(disk_index, FALSE, FALSE).disk
    /\ call' = [call EXCEPT !.pc = "del_save_meta"]
    /\ UNCHANGED <<vectorstore, documents_metadata, disk_meta, last, faults, held, http, reader>>

\* lines 281-284
DelSaveMeta ==
    /\ call.pc = "del_save_meta"
    /\ disk_meta' = _save_metadata(documents_metadata, disk_meta, FALSE, FALSE)
    /\ call' = Idle
    /\ last' = [NoCall EXCEPT
           !.op = "delete", !.name = call.name, !.known = TRUE, !.saved = TRUE]
    /\ UNCHANGED <<vectorstore, documents_metadata, disk_index, faults, held, http, reader>>

\* the process is killed while a call is in progress and started again; a
\* kill inside a step that writes an artifact in place (torn) leaves that
\* artifact unreadable, a kill before the step leaves it as it was
Crash ==
    \E torn \in BOOLEAN, start \in StartFaults :
        /\ call.pc \notin {"idle", "down"}
        /\ faults < MaxFaults
        /\ torn => call.pc \in IndexWrites \cup MetaWrites
        /\ disk_index' = IF /\ torn /\ call.pc \in IndexWrites
                            /\ (call.pc = "del_rmtree" => disk_index.kind # "absent")
                         THEN CorruptIndex ELSE disk_index
        /\ disk_meta' = IF torn /\ call.pc \in MetaWrites THEN CorruptMeta ELSE disk_meta
        /\ \E service \in {module_start(disk_index', disk_meta', start)} :
              /\ vectorstore' = service.vectorstore
              /\ documents_metadata' = service.documents_metadata
              /\ call' = IF service.raised THEN Down ELSE Idle
        /\ faults' = faults + 1
        /\ held' = NoRetriever
        /\ http' = NoRequests
        /\ reader' = NoReader
        /\ last' = [NoCall EXCEPT
               !.op = "crash", !.name = call.name, !.n = call.n,
               !.known = call.known, !.ok = FALSE, !.at = call.pc, !.torn = torn,
               !.fault = start]

\* a restart between two calls
RestartIdle == call.pc \in {"idle", "down"} /\ Restart

NextCrash ==
    \/ StartAdd \/ AddLedger \/ AddSaveIndex \/ AddSaveMeta
    \/ StartDelete \/ DelRebuild \/ DelSaveIndex \/ DelRmtree \/ DelSaveMeta
    \/ Crash \/ RestartIdle

SpecCrash == Init /\ [][NextCrash]_vars

\* ------------------------------------------------ a retriever that is kept
\* a caller keeps the retriever get_retriever returned and invokes it after
\* other calls have completed; no step fails here.
GetRetriever ==
    \E k \in Ks :
        \E retriever \in {get_retriever(vectorstore, k)} :
            /\ Serving
            /\ held' = [present |-> retriever.present, store |-> retriever.store,
                        k |-> retriever.k, bound |-> retriever.present,
                        result |-> <<>>]
            /\ last' = [NoCall EXCEPT !.op = "get_retriever", !.n = k,
                           !.ok = retriever.present, !.saved = last.saved]
            /\ UNCHANGED <<vectorstore, documents_metadata, disk_index, disk_meta,
                           faults, call, http, reader>>

\* retriever.invoke(question): a search of the FAISS object it was made from
InvokeRetriever ==
    \E question \in Questions :
        /\ Serving
        /\ held.present
        /\ held' = [held EXCEPT
               !.result = FAISS_similarity_search(held.store, question, held.k)]
        /\ last' = [NoCall EXCEPT !.op = "invoke", !.name = question,
                       !.n = held.k, !.saved = last.saved]
        /\ UNCHANGED <<vectorstore, documents_metadata, disk_index, disk_meta,
                       faults, call, http, reader>>

\* add_documents: line 113 names a new object when there was none, line 117
\* grows the existing object, which a retriever made from it sees
RetrieverAdd ==
    \E filename \in Names : \E documents \in Batches(filename) :
        /\ Serving
        /\ get_document_count(vectorstore) + Len(documents) <= MaxChunks
        /\ filename \in DOMAIN documents_metadata =>
              documents_metadata[filename].chunks + Len(documents) <= MaxChunks
        /\ \E out \in {add_documents(vectorstore, documents_metadata, disk_index,
                                    disk_meta, documents, filename, "none", FALSE)} :
               /\ Apply(out)
               /\ last' = [NoCall EXCEPT
                      !.op = "add", !.name = filename, !.n = Len(documents),
                      !.known = filename \in DOMAIN documents_metadata,
                      !.ok = out.ok, !.ret = out.ret, !.saved = out.ok,
                      !.io = TRUE]
               /\ held' = IF held.bound /\ is_ready(vectorstore)
                          THEN [held EXCEPT !.store = out.vectorstore]
                          ELSE held
        /\ UNCHANGED <<faults, call, http, reader>>

\* delete_document: lines 270 and 275 make self.vectorstore name another
\* object (or None); the object a retriever was made from stays as it was
RetrieverDelete ==
    \E filename \in Names :
        \E out \in {delete_document(vectorstore, documents_metadata, disk_index,
                                   disk_meta, filename, "none", FALSE)},
           known \in {filename \in DOMAIN documents_metadata} :
            /\ Serving
            /\ Apply(out)
            /\ last' = [NoCall EXCEPT
                   !.op = "delete", !.name = filename, !.known = known,
                   !.ok = out.ok,
                   !.saved = IF known THEN out.ok ELSE last.saved,
                   !.status = IF out.ok THEN 200 ELSE 404]
            /\ held' = IF out.ok THEN [held EXCEPT !.bound = FALSE] ELSE held
            /\ UNCHANGED <<faults, call, http, reader>>

NextRetriever ==
    GetRetriever \/ InvokeRetriever \/ RetrieverAdd \/ RetrieverDelete \/ Restart

SpecRetriever == Init /\ [][NextRetriever]_vars

\* ------------------------------------------ readers beside a running call
\* a reader on another thread calls get_stats, list_documents, is_ready and
\* similarity_search without a lock while a call is in progress; the thread
\* can be switched between any two reads of self.vectorstore and
\* self.documents_metadata. The reply in last is what the reader got, at is
\* the step the writer was at when the read completed.
Observed(op, reply) ==
    [NoCall EXCEPT !.op = op, !.name = call.name, !.at = call.pc,
                   !.saved = last.saved, !.reply = reply]

\* get_stats line 216 -> get_document_count line 206: the check of
\* self.vectorstore against None
GetStatsCheck ==
    /\ Serving
    /\ reader.pc = "idle"
    /\ reader' = IF ~vectorstore.present
                 THEN [NoReader EXCEPT !.pc = "get_stats_len"]
                 ELSE [NoReader EXCEPT !.pc = "get_stats_count"]
    /\ UNCHANGED <<vectorstore, documents_metadata, disk_index, disk_meta, last,
                   faults, call, held, http>>

\* get_document_count lines 208-211: self.vectorstore is read again for
\* index.ntotal; the AttributeError on None is caught and 0 returned
GetStatsCount ==
    /\ reader.pc = "get_stats_count"
    /\ reader' = [reader EXCEPT !.pc = "get_stats_len",
                     !.total_chunks = get_document_count(vectorstore)]
    /\ UNCHANGED <<vectorstore, documents_metadata, disk_index, disk_meta, last,
                   faults, call, held, http>>

\* get_stats line 217: 'total_documents': len(self.documents_metadata)
GetStatsLen ==
    /\ reader.pc = "get_stats_len"
    /\ reader' = [reader EXCEPT !.pc = "get_stats_documents",
                     !.total_documents = Cardinality(DOMAIN documents_metadata)]
    /\ UNCHANGED <<vectorstore, documents_metadata, disk_index, disk_meta, last,
                   faults, call, held, http>>

\* get_stats line 218: 'documents' is the dict itself, read by the caller
\* when it looks at the reply
GetStatsDocuments ==
    /\ reader.pc = "get_stats_documents"
    /\ last' = Observed("get_stats",
                        [total_chunks    |-> reader.total_chunks,
                         total_documents |-> reader.total_documents,
                         documents       |-> documents_metadata])
    /\ reader' = NoReader
    /\ UNCHANGED <<vectorstore, documents_metadata, disk_index, disk_meta,
                   faults, call, held, http>>

\* list_documents lines 221-228: the iterator over
\* self.documents_metadata.items() is made
ListDocumentsStart ==
    /\ Serving
    /\ reader.pc = "idle"
    /\ reader' = [NoReader EXCEPT !.pc = "list_documents",
                     !.used = Cardinality(DOMAIN documents_metadata),
                     !.left = Cardinality(DOMAIN documents_metadata),
                     !.todo = DOMAIN documents_metadata]
    /\ UNCHANGED <<vectorstore, documents_metadata, disk_index, disk_meta, last,
                   faults, call, held, http>>

\* the keys the iterator can reach next
Reachable == reader.todo \cup reader.fresh

\* one turn of the comprehension: the iterator gives the next entry and
\* info['chunks'] is read as it is then. Which entry comes next is the
\* dict's order, which is not part of the state; after a key was put in,
\* the entry table may have been rebuilt and any entry not reached can come.
ListDocumentsNext ==
    /\ reader.pc = "list_documents"
    /\ Cardinality(DOMAIN documents_metadata) = reader.used
    /\ reader.left > 0
    /\ \E name \in Reachable :
          reader' = [reader EXCEPT
                        !.seen = @ \cup {[filename |-> name,
                                          chunks |-> documents_metadata[name].chunks]},
                        !.todo = @ \ {name}, !.fresh = @ \ {name},
                        !.left = @ - 1]
    /\ UNCHANGED <<vectorstore, documents_metadata, disk_index, disk_meta, last,
                   faults, call, held, http>>

\* the iterator raises RuntimeError: the dict has another size than when it
\* was made ("changed size during iteration"), or it has given as many
\* entries as the dict had and finds one more ("keys changed during
\* iteration")
ListDocumentsRaise ==
    /\ reader.pc = "list_documents"
    /\ \/ Cardinality(DOMAIN documents_metadata) # reader.used
       \/ reader.changed /\ reader.left = 0 /\ Reachable # {}
    /\ last' = [Observed("list_documents", [raised |-> TRUE, documents |-> {}])
                    EXCEPT !.ok = FALSE]
    /\ reader' = NoReader
    /\ UNCHANGED <<vectorstore, documents_metadata, disk_index, disk_meta,
                   faults, call, held, http>>

\* the iterator is exhausted and the list is returned: every entry was
\* given, or, after a key was put in, the rebuilt entry table has no
\* entry past the iterator's position
ListDocumentsReturn ==
    /\ reader.pc = "list_documents"
    /\ Cardinality(DOMAIN documents_metadata) = reader.used
    /\ ~reader.changed => reader.todo = {}
    /\ last' = Observed("list_documents",
                        [raised |-> FALSE, documents |-> reader.seen])
    /\ reader' = NoReader
    /\ UNCHANGED <<vectorstore, documents_metadata, disk_index, disk_meta,
                   faults, call, held, http>>

\* is_ready line 202: one read of self.vectorstore
IsReady ==
    /\ Serving
    /\ reader.pc = "idle"
    /\ last' = Observed("is_ready", [ready |-> is_ready(vectorstore)])
    /\ UNCHANGED <<vectorstore, documents_metadata, disk_index, disk_meta,
                   faults, call, held, http, reader>>

\* similarity_search lines 161-163: self.vectorstore is checked against
\* None; [] is returned when it is
SimilaritySearchCheck ==
    \E question \in Questions, k \in Ks :
        /\ Serving
        /\ reader.pc = "idle"
        /\ IF ~vectorstore.present
           THEN /\ last' = [Observed("similarity_search",
                                     [raised |-> FALSE, question |-> question,
                                      docs |-> <<>>])
                               EXCEPT !.n = k]
                /\ UNCHANGED reader
           ELSE /\ reader' = [NoReader EXCEPT !.pc = "similarity_search",
                                  !.query = question, !.k = k]
                /\ UNCHANGED last
        /\ UNCHANGED <<vectorstore, documents_metadata, disk_index, disk_meta,
                       faults, call, held, http>>

\* similarity_search lines 165-173: self.vectorstore is read again and
\* searched; when it is None by now the AttributeError is logged and raised
SimilaritySearchRun ==
    /\ reader.pc = "similarity_search"
    /\ last' = IF ~vectorstore.present
               THEN [Observed("similarity_search",
                              [raised |-> TRUE, question |-> reader.query,
                               docs |-> <<>>])
                        EXCEPT !.n = reader.k, !.ok = FALSE]
               ELSE [Observed("similarity_search",
                              [raised |-> FALSE, question |-> reader.query,
                               docs |-> FAISS_similarity_search(
                                            vectorstore, reader.query, reader.k)])
                        EXCEPT !.n = reader.k]
    /\ reader' = NoReader
    /\ UNCHANGED <<vectorstore, documents_metadata, disk_index, disk_meta,
                   faults, call, held, http>>

NextReaders ==
    \/ StartAdd \/ AddLedger \/ AddSaveIndex \/ AddSaveMeta
    \/ StartDelete \/ DelRebuild \/ DelSaveIndex \/ DelRmtree \/ DelSaveMeta
    \/ GetStatsCheck \/ GetStatsCount \/ GetStatsLen \/ GetStatsDocuments
    \/ ListDocumentsStart \/ ListDocumentsNext \/ ListDocumentsRaise
    \/ ListDocumentsReturn \/ IsReady
    \/ SimilaritySearchCheck \/ SimilaritySearchRun

SpecReaders == Init /\ [][NextReaders]_vars

\* ------------------------------------------------- the routes as coroutines
\* every route is an async def run by the one event loop of the one server
\* process (run.py starts uvicorn without workers). A coroutine that has the
\* loop keeps it until it awaits or returns. A request's coroutine is at
\*   "new"         not started yet
\*   "reading"     upload: suspended in `await file.read()` (routes.py 67)
\*   "in_service"  inside add_documents / delete_document: the in-memory
\*                 changes are made, the writes are still to come
Kinds == {"upload", "delete"}

\* routes with an await inside the service call
await_points_in_service(kind) == {"reading", "in_service"}

\* the positions at which a route's coroutine awaits: line 67 and no other
await_points(kind) == IF kind = "upload" THEN {"reading"} ELSE {}

\* the loop can run (or go on running) the coroutine of request r
CanRun(r) == http.running \in {0, r}

\* request r's coroutine has run up to pc; it gives the loop back when it
\* awaits there or has returned
Advance(r, pc, n, known) ==
    [running |-> IF pc = "none" \/ pc \in await_points(http.reqs[r].kind)
                 THEN 0 ELSE r,
     reqs |-> [http.reqs EXCEPT ![r] =
                 IF pc = "none" THEN NoRequest
                 ELSE [pc |-> pc, kind |-> http.reqs[r].kind,
                       name |-> http.reqs[r].name, n |-> n,
                       known |-> known]]]

\* a client sends a request
Arrive ==
    \E r \in Requests, kind \in Kinds, name \in UploadNames :
        /\ http.reqs[r].pc = "none"
        /\ kind = "delete" => name \in Names
        /\ http' = [http EXCEPT
               !.reqs[r] = [pc |-> "new", kind |-> kind, name |-> name, n |-> 0,
                            known |-> FALSE]]
        /\ UNCHANGED <<vectorstore, documents_metadata, disk_index, disk_meta,
                       last, faults, call, held, reader>>

\* routes.upload_document lines 51-67: the extension check, then the await
UploadStart ==
    \E r \in Requests :
        /\ http.reqs[r].pc = "new" /\ http.reqs[r].kind = "upload"
        /\ CanRun(r)
        /\ IF http.reqs[r].name \in Accepted
           THEN /\ http' = Advance(r, "reading", 0, FALSE)
                /\ UNCHANGED last
           ELSE /\ http' = Advance(r, "none", 0, FALSE)
                /\ last' = [NoCall EXCEPT
                       !.op = "upload", !.name = http.reqs[r].name, !.ok = FALSE,
                       !.known = http.reqs[r].name \in DOMAIN documents_metadata,
                       !.saved = last.saved, !.status = 400]
        /\ UNCHANGED <<vectorstore, documents_metadata, disk_index, disk_meta,
                       faults, call, held, reader>>

\* routes.upload_document lines 67-76 up to add_documents line 126: the file
\* is saved and processed, the documents are inserted and the ledger updated
UploadResume ==
    \E r \in Requests :
        /\ http.reqs[r].pc = "reading"
        /\ CanRun(r)
        /\ \E filename \in {http.reqs[r].name} :
              IF filename \notin Loadable
              THEN /\ http' = Advance(r, "none", 0, FALSE)
                   /\ last' = [NoCall EXCEPT
                          !.op = "upload", !.name = filename, !.ok = FALSE,
                          !.known = filename \in DOMAIN documents_metadata,
                          !.saved = last.saved, !.status = 500, !.io = TRUE]
                   /\ UNCHANGED <<vectorstore, documents_metadata>>
              ELSE \E documents \in Batches(filename) :
                   /\ get_document_count(vectorstore) + Len(documents) <= MaxChunks
                   /\ filename \in DOMAIN documents_metadata =>
                         documents_metadata[filename].chunks + Len(documents)
                             <= MaxChunks
                   /\ IF documents = <<>>
                      THEN /\ http' = Advance(r, "none", 0, FALSE)
                           /\ last' = [NoCall EXCEPT
                                  !.op = "add", !.name = filename, !.ok = FALSE,
                                  !.known = filename \in DOMAIN documents_metadata,
                                  !.status = 500, !.io = TRUE]
                           /\ UNCHANGED <<vectorstore, documents_metadata>>
                      ELSE /\ vectorstore' =
                                 IF ~vectorstore.present
                                 THEN FAISS_from_documents(
                                          tag_documents(documents, filename))
                                 ELSE FAISS_add_documents(vectorstore,
                                          tag_documents(documents, filename))
                           /\ documents_metadata' =
                                 update_metadata(documents_metadata, filename,
                                                 Len(documents))
                           /\ http' = Advance(r, "in_service", Len(documents),
                                              filename \in DOMAIN documents_metadata)
                           /\ UNCHANGED last
        /\ UNCHANGED <<disk_index, disk_meta, faults, call, held, reader>>

\* add_documents lines 129-133 and routes.upload_document lines 78-84
UploadFinish ==
    \E r \in Requests :
        /\ http.reqs[r].pc = "in_service" /\ http.reqs[r].kind = "upload"
        /\ CanRun(r)
        /\ disk_index' = _save_vectorstore(vectorstore, disk_index, FALSE, FALSE).disk
        /\ disk_meta' = _save_metadata(documents_metadata, disk_meta, FALSE, FALSE)
        /\ http' = Advance(r, "none", 0, FALSE)
        /\ last' = [NoCall EXCEPT
               !.op = "add", !.name = http.reqs[r].name, !.n = http.reqs[r].n,
               !.known = http.reqs[r].known,
               !.ret = http.reqs[r].n, !.saved = TRUE, !.io = TRUE]
        /\ UNCHANGED <<vectorstore, documents_metadata, faults, call, held, reader>>

\* routes.delete_document line 156 and delete_document lines 243-275 without
\* the writes: the early returns (404), else the record is removed and the
\* store rebuilt or dropped
DeleteStart ==
    \E r \in Requests :
        /\ http.reqs[r].pc = "new" /\ http.reqs[r].kind = "delete"
        /\ CanRun(r)
        /\ \E filename \in {http.reqs[r].name} :
              IF filename \notin DOMAIN documents_metadata \/ ~vectorstore.present
              THEN /\ http' = Advance(r, "none", 0, FALSE)
                   /\ last' = [NoCall EXCEPT
                          !.op = "delete", !.name = filename, !.ok = FALSE,
                          !.known = filename \in DOMAIN documents_metadata,
                          !.saved = last.saved, !.status = 404]
                   /\ UNCHANGED <<vectorstore, documents_metadata>>
              ELSE \E keep \in {docs_to_keep(vectorstore, filename)} :
                   /\ documents_metadata' = del_metadata(documents_metadata, filename)
                   /\ vectorstore' = IF keep # <<>> THEN FAISS_from_documents(keep)
                                     ELSE None
                   /\ http' = Advance(r, "in_service", 0, TRUE)
                   /\ UNCHANGED last
        /\ UNCHANGED <<disk_index, disk_meta, faults, call, held, reader>>

\* delete_document lines 271 or 276-278, then 281-284, and the route's answer
DeleteFinish ==
    \E r \in Requests :
        /\ http.reqs[r].pc = "in_service" /\ http.reqs[r].kind = "delete"
        /\ CanRun(r)
        /\ disk_index' =
              IF is_ready(vectorstore)
              THEN _save_vectorstore(vectorstore, disk_index, FALSE, FALSE).disk
              ELSE rmtree_index(disk_index, FALSE, FALSE).disk
        /\ disk_meta' = _save_metadata(documents_metadata, disk_meta, FALSE, FALSE)
        /\ http' = Advance(r, "none", 0, FALSE)
        /\ last' = [NoCall EXCEPT
               !.op = "delete", !.name = http.reqs[r].name, !.known = TRUE,
               !.saved = TRUE]
        /\ UNCHANGED <<vectorstore, documents_metadata, faults, call, held, reader>>

NextHttp ==
    \/ Arrive \/ UploadStart \/ UploadResume \/ UploadFinish
    \/ DeleteStart \/ DeleteFinish

SpecHttp == Init /\ [][NextHttp]_vars

\* ================================================================ claims
LedgerCount(meta, name) == IF name \in DOMAIN meta THEN meta[name].chunks ELSE 0

Population(vs, name) ==
    Cardinality({i \in 1..Len(vs.docs) : vs.docs[i].filename = name})

TotalChunks == get_stats(vectorstore, documents_metadata).total_chunks
TotalDocuments == get_stats(vectorstore, documents_metadata).total_documents

Mutating == {"add", "delete"}
PersistSteps == {"save_index", "save_meta", "rmtree"}

\* C1: between calls, for every document name the ledger's chunk count (0
\* without a record) equals the number of stored fragments tagged with it.
C1_LedgerStoreAgreement ==
    \A name \in Names :
        LedgerCount(documents_metadata, name) = Population(vectorstore, name)

\* C2: an add_documents that returns has returned n >= 1, total_chunks has
\* grown by n, total_documents by 1 for a new name and by 0 for a known one,
\* whose record has grown by n.
C2_IngestCounts ==
    [][(last'.op = "add" /\ last'.ok) =>
          /\ last'.n >= 1
          /\ last'.ret = last'.n
          /\ TotalChunks' = TotalChunks + last'.n
          /\ TotalDocuments' = TotalDocuments + (IF last'.known THEN 0 ELSE 1)
          /\ LedgerCount(documents_metadata', last'.name)
                = LedgerCount(documents_metadata, last'.name) + last'.n
          /\ last'.known = (last'.name \in DOMAIN documents_metadata)
      ]_vars

\* a re-ingest of a known name has returned
C2_Witness ==
    /\ last.op = "add" /\ last.ok /\ last.known
    /\ documents_metadata[last.name].chunks > last.n
    /\ TotalDocuments = 2

\* C3: after delete_document(name) on a name the ledger holds, the list does
\* not contain name, total_chunks has dropped by the count the ledger held for
\* it, and the other records are unchanged.
C3_DeleteRemoves ==
    [][(last'.op = "delete" /\ last'.known) =>
          /\ last'.name \notin DOMAIN documents_metadata'
          /\ \A d \in list_documents(documents_metadata') : d.filename # last'.name
          /\ TotalChunks' = TotalChunks - LedgerCount(documents_metadata, last'.name)
          /\ \A other \in DOMAIN documents_metadata \ {last'.name} :
                /\ other \in DOMAIN documents_metadata'
                /\ documents_metadata'[other] = documents_metadata[other]
      ]_vars

\* C4: delete_document on a name without a ledger record returns false and
\* leaves the store, the ledger, the persisted index and the persisted
\* metadata file as they were.
C4_DeleteUnknown ==
    [][(last'.op = "delete" /\ last'.name \notin DOMAIN documents_metadata) =>
          /\ ~last'.ok
          /\ UNCHANGED <<vectorstore, documents_metadata, disk_index, disk_meta>>
      ]_vars

\* an unknown name was deleted from a corpus that holds another document
C4_Witness ==
    /\ last.op = "delete" /\ ~last.known /\ ~last.ok
    /\ is_ready(vectorstore)
    /\ DOMAIN documents_metadata # {}

\* C5: once a delete has succeeded and the ledger is empty, is_ready() is
\* false, every search returns the empty list and total_chunks is 0.
C5_EmptyAfterDeletingAll ==
    (last.op = "delete" /\ last.ok /\ DOMAIN documents_metadata = {}) =>
        /\ ~is_ready(vectorstore)
        /\ \A q \in Questions, k \in Ks : similarity_search(vectorstore, q, k) = <<>>
        /\ TotalChunks = 0

\* C6: a restart that brings up a new service after a mutating call that
\* succeeded and wrote both artifacts of a non-empty corpus gives the same
\* stats, the same stored fragments and the same top-k results.
C6_RoundTrip ==
    [][(last'.op = "restart" /\ last'.ok /\ last.saved /\ is_ready(vectorstore)) =>
          /\ get_stats(vectorstore', documents_metadata')
                = get_stats(vectorstore, documents_metadata)
          /\ vectorstore' = vectorstore
          /\ \A q \in Questions, k \in Ks :
                similarity_search(vectorstore', q, k)
                    = similarity_search(vectorstore, q, k)
      ]_vars

\* a saved corpus of two documents has been reloaded
C6_Witness ==
    /\ last.op = "restart" /\ last.ok /\ last.saved
    /\ is_ready(vectorstore)
    /\ TotalDocuments = 2
    /\ TotalChunks = 3

\* C7: query on a store that is not ready returns the fixed answer, no
\* sources and the question as given, without raising and without building
\* or invoking the retriever or the generation client.
C7_QueryNotReady ==
    (last.op = "query" /\ ~vectorstore.present) =>
        last.reply = Reply(NoDocumentsAnswer, <<>>, last.name,
                           FALSE, FALSE, FALSE, FALSE)

\* the second of the questions was asked while the store was not ready and
\* came back in the reply
C7_Witness ==
    /\ last.op = "query" /\ ~vectorstore.present
    /\ last.reply.answer = NoDocumentsAnswer
    /\ last.name = "beta" /\ last.reply.question = "beta"

\* C8: delete_document on a name the ledger holds, in which no persist step
\* fails, returns true and removes the record.
C8_DeleteFailsOnlyUnknown ==
    [][(last'.op = "delete" /\ last'.known /\ last'.fault \notin PersistSteps) =>
          /\ last'.ok
          /\ last'.name \notin DOMAIN documents_metadata'
      ]_vars

\* C9: a call in which the write of the index or of the metadata file failed
\* does not report success.
C9_SaveFailureSurfaces ==
    (last.op \in Mutating /\ last.fault \in {"save_index", "save_meta"}) => ~last.ok

\* C10: when add_documents raises or delete_document returns false because
\* a step failed, the in-memory store and ledger are as before the call.
C10_RollbackOnFailure ==
    [][(last'.op \in Mutating /\ ~last'.ok /\ last'.fault # "none") =>
          /\ vectorstore' = vectorstore
          /\ documents_metadata' = documents_metadata
      ]_vars

\* C11: a delete_document that returns false for a name the ledger holds
\* leaves the persisted index and the persisted metadata file as they were.
C11_FailedDeleteKeepsDisk ==
    [][(last'.op = "delete" /\ last'.known /\ ~last'.ok) =>
          UNCHANGED <<disk_index, disk_meta>>
      ]_vars

\* C12: after an add_documents that returned or a delete_document that
\* returned true, the persisted metadata file holds the in-memory ledger and
\* the persisted index holds the in-memory store (absent when it is None).
C12_SavedTogether ==
    (last.op \in Mutating /\ last.ok) =>
        /\ disk_meta = [kind |-> "ok", data |-> json_dump(documents_metadata)]
        /\ disk_index = IF is_ready(vectorstore) THEN FAISS_save_local(vectorstore)
                        ELSE Absent

\* C13: after a crash at any point of add_documents, the metadata file found
\* on disk records for no name a count larger than the number of fragments
\* tagged with that name in the index found on disk.
C13_IndexBeforeLedger ==
    (last.op = "crash" /\ last.at \in AddSteps /\ call.pc = "idle") =>
        \A name \in Names :
            LedgerCount(_load_metadata(disk_meta), name)
                <= Population(_load_vectorstore(disk_index), name)

\* C16: a crash before or inside a _save_metadata leaves a metadata file
\* that loads to the ledger as it was on disk before the save or to the
\* ledger that was being saved.
C16_LedgerSaveAtomic ==
    [][(last'.op = "crash" /\ call.pc \in MetaWrites) =>
          _load_metadata(disk_meta') \in
              {_load_metadata(disk_meta), documents_metadata}
      ]_vars

\* C14 as stated: a construction whose load of the index or of the metadata
\* file fails does not raise, an index that is missing or unreadable leaves
\* is_ready() false and a metadata file that is missing or unreadable leaves
\* the ledger empty; a later add_documents on the absent store, of any
\* batch, returns the number of documents and leaves a store that holds
\* exactly the tagged documents. Violated by the add_documents of no
\* document, which raises in FAISS.from_documents.
C14_LazyCreateAnyBatch ==
    [][/\ (last'.op = "restart" /\ last'.fault = "none") =>
             /\ last'.ok
             /\ disk_index.kind # "ok" => ~is_ready(vectorstore')
             /\ disk_meta.kind # "ok" => DOMAIN documents_metadata' = {}
       /\ (last'.op = "add" /\ ~is_ready(vectorstore) /\ last'.fault = "none") =>
             /\ last'.ok /\ last'.ret = last'.n
             /\ is_ready(vectorstore')
             /\ Len(vectorstore'.docs) = last'.n
             /\ Population(vectorstore', last'.name) = last'.n
      ]_vars

\* C14: a construction whose load of the index or of the metadata file fails
\* does not raise, an index that is missing or unreadable leaves is_ready()
\* false and a metadata file that is missing or unreadable leaves the ledger
\* empty; a later add_documents of at least one document on the absent store
\* returns the number of documents and leaves a store that holds exactly the
\* tagged documents. The steps taken are those in which nothing but the
\* load fails: the construction of the embedding model and the steps of
\* add_documents are the subject of other properties.
C14_LoadFailureIsEmpty ==
    [][/\ (last'.op = "restart" /\ last'.fault = "none") =>
             /\ last'.ok
             /\ disk_index.kind # "ok" => ~is_ready(vectorstore')
             /\ disk_meta.kind # "ok" => DOMAIN documents_metadata' = {}
       /\ (/\ last'.op = "add" /\ ~is_ready(vectorstore)
           /\ last'.fault = "none" /\ last'.n >= 1) =>
             /\ last'.ok /\ last'.ret = last'.n
             /\ is_ready(vectorstore')
             /\ Len(vectorstore'.docs) = last'.n
             /\ Population(vectorstore', last'.name) = last'.n
      ]_vars

\* C14 witness: an add_documents has succeeded on a store that a start had
\* left absent while the ledger already held the name.
C14_Witness ==
    /\ last.op = "add" /\ last.ok /\ last.known
    /\ is_ready(vectorstore)
    /\ Len(vectorstore.docs) = last.n
    /\ documents_metadata[last.name].chunks > last.n

\* C15: what an invoked retriever returns is the result of searching the
\* store as it is at the invocation: it holds no fragment of a document
\* deleted since the retriever was made and can hold fragments added since.
C15_RetrieverSeesCurrentStore ==
    last.op = "invoke" =>
        held.result = similarity_search(vectorstore, last.name, held.k)

\* the extension of a file name: what follows its last dot, lowered; none
\* for a name without a dot
Extension(filename) ==
    IF Len(split(filename)) < 2 THEN ""
    ELSE lower(split(filename)[Len(split(filename))])

\* C17: an upload of a file whose extension is not pdf, txt or md is answered
\* with the unsupported-type error (400), the file is neither read nor
\* saved, and the store, the ledger and both artifacts stay as they were.
C17_RejectedBeforeIO ==
    [][(last'.op \in {"upload", "add"}
          /\ Extension(last'.name) \notin {"pdf", "txt", "md"}) =>
          /\ last'.status = 400
          /\ ~last'.io
          /\ UNCHANGED <<vectorstore, documents_metadata, disk_index, disk_meta>>
      ]_vars

\* C18: every source attribution a query returns names, in its source field,
\* a document the ledger lists.
C18_SourceIsDocumentName ==
    (last.op = "query" /\ last.ok) =>
        \A i \in 1..Len(last.reply.sources) :
            last.reply.sources[i].source \in
                {d.filename : d \in list_documents(documents_metadata)}

\* the number of times a fragment occurs in a store
Occurrences(vs, doc) == Cardinality({i \in 1..Len(vs.docs) : vs.docs[i] = doc})

Fragments(vs) == {vs.docs[i] : i \in 1..Len(vs.docs)}

\* C19: after a delete_document(name) that returned true, a fragment tagged
\* with name occurs nowhere in the store, every other fragment occurs as
\* often as before the call with its text and metadata unchanged, nothing
\* else is in the store, and the store is None when no fragment is left.
C19_DeleteRemovesExactly ==
    [][(last'.op = "delete" /\ last'.ok) =>
          /\ \A doc \in Fragments(vectorstore) \cup Fragments(vectorstore') :
                Occurrences(vectorstore', doc) =
                    IF doc.filename = last'.name THEN 0
                    ELSE Occurrences(vectorstore, doc)
          /\ is_ready(vectorstore') =
                (\E doc \in Fragments(vectorstore) : doc.filename # last'.name)
      ]_vars

\* C19 witness: a delete_document has returned true and left the fragments
\* of another document in the store, none of them tagged with the name.
C19_Witness ==
    /\ last.op = "delete" /\ last.ok /\ last.known
    /\ is_ready(vectorstore)
    /\ Population(vectorstore, last.name) = 0
    /\ \E name \in Names \ {last.name} : Population(vectorstore, name) > 0

\* C20: in every state is_ready() is true exactly when get_document_count()
\* is positive, and get_retriever returns None exactly when is_ready() is
\* false.
C20_ReadyIffNonEmpty ==
    /\ is_ready(vectorstore) = (get_document_count(vectorstore) > 0)
    /\ \A k \in Ks :
          (~get_retriever(vectorstore, k).present) = (~is_ready(vectorstore))

\* C20 witness: a delete_document has removed the last fragments; the store
\* is not ready, counts 0 and gives no retriever.
C20_Witness ==
    /\ last.op = "delete" /\ last.ok
    /\ ~is_ready(vectorstore)
    /\ get_document_count(vectorstore) = 0
    /\ \A k \in Ks : ~get_retriever(vectorstore, k).present

\* the chunks the ledger records for the names in S, added up
RECURSIVE LedgerTotal(_, _)
LedgerTotal(meta, S) ==
    IF S = {} THEN 0
    ELSE LET name == CHOOSE name \in S : TRUE
         IN  LedgerCount(meta, name) + LedgerTotal(meta, S \ {name})

\* C21: after a crash of add_documents between the index write and the
\* metadata write, and the restart, the fragments the ledger does not record
\* are not counted in total_chunks, do not make is_ready() true on their
\* own, and are not returned by similarity_search.
C21_OrphansInvisible ==
    (last.op = "crash" /\ last.at = "add_save_meta" /\ ~last.torn
        /\ call.pc = "idle") =>
        /\ get_stats(vectorstore, documents_metadata).total_chunks
              = LedgerTotal(documents_metadata, Names)
        /\ is_ready(vectorstore) => DOMAIN documents_metadata # {}
        /\ \A question \in Questions, k \in Ks, name \in Names :
              Population([present |-> TRUE,
                          docs |-> similarity_search(vectorstore, question, k)],
                         name)
                  <= LedgerCount(documents_metadata, name)

\* C24: after a crash at any point of delete_document(name), and the
\* restart, the corpus holds the document entirely (a ledger record whose
\* count is the number of its fragments in the store) or not at all (no
\* record and no fragment).
C24_DeleteCrashAtomic ==
    (last.op = "crash" /\ last.at \in DeleteSteps /\ call.pc = "idle") =>
        \/ /\ last.name \in DOMAIN documents_metadata
           /\ Population(vectorstore, last.name) > 0
           /\ Population(vectorstore, last.name)
                 = documents_metadata[last.name].chunks
        \/ /\ last.name \notin DOMAIN documents_metadata
           /\ Population(vectorstore, last.name) = 0

\* C22: what a reader gets at any step of the one call in progress is a
\* corpus in which the ledger and the fragment store agree: get_stats gives
\* a total_chunks that is the sum of the chunk counts of its documents and a
\* total_documents that is their number, and neither list_documents nor
\* similarity_search fails.
C22_ReadersSeeWholeCorpus ==
    /\ last.op = "get_stats" =>
          /\ last.reply.total_chunks = LedgerTotal(last.reply.documents, Names)
          /\ last.reply.total_documents = Cardinality(DOMAIN last.reply.documents)
    /\ last.op = "list_documents" => ~last.reply.raised
    /\ last.op = "similarity_search" => ~last.reply.raised

\* the requests whose add_documents or delete_document is in progress
InService(h) == {r \in Requests : h.reqs[r].pc = "in_service"}

\* C23: at most one add_documents or delete_document is in progress at any
\* time, and while one is in progress no other request's coroutine runs:
\* the only thing that can happen to another request is its arrival.
C23_MutationsSerialized ==
    [][/\ Cardinality(InService(http')) <= 1
       /\ \A r \in InService(http) : \A s \in Requests \ {r} :
             http'.reqs[s] # http.reqs[s] => http.reqs[s].pc = "none"
      ]_vars

\* C23 witness: an add_documents or delete_document is in progress while
\* another upload or delete request is in flight, waiting for the loop.
C23_Witness ==
    \E r \in InService(http) : \E s \in Requests \ {r} :
        /\ http.reqs[s].pc \in {"new", "reading"}
        /\ http.running = r

====
